---- MODULE Spec2Model ----
(***************************************************************************)
(* Truss viewer (Truss_Classes.py, Truss_App.py): the record parser, the   *)
(* derivation of link length / angle / weight and of the support           *)
(* reactions, the report and the scene layout, as a state machine.         *)
(*                                                                         *)
(* Representation of values                                                *)
(*   - An optional value (Python None or a value) is a tuple: <<>> is      *)
(*     None and <<v>> is the value v.                                      *)
(*   - Numbers are integers.  Coordinates, lengths, widths and thicknesses *)
(*     are in input units; weights and reactions are in hundredths of a    *)
(*     newton (g = 9.81 is 981), so the constant 6468.7 is 646870; angles  *)
(*     are in milliradians (pi is 3142).  Scene coordinates are doubled,   *)
(*     because the centre of the bounding box is a half-integer.           *)
(*   - A text line is the sequence of its comma-separated fields, each     *)
(*     field as written (surrounding blanks included).                     *)
(***************************************************************************)
EXTENDS Integers, Sequences, FiniteSets, TLC

VARIABLES
    file,     \* the lines of the file on disk that OpenFile reads
    data,     \* the lines handed to the last ImportFromFile call
    truss,    \* TrussController.truss, the TrussModel
    view,     \* what TrussView shows: the longest-link fields, report, scene
    err,      \* the exception the last operation raised ("" when none)
    stage,    \* the step the last ImportFromFile call reached
    lastOp,   \* the last operation called on the controller
    again,    \* TRUE when lastOp repeats the operation before it on the same model
    edits,    \* the number of Link.set calls made so far
    prior,    \* <<leftReaction, rightReaction>> before the last operation
    draws,    \* the number of drawTruss calls made since the last import
    event,    \* the last event that went through MainWindow.eventFilter
    lbl_MousePos,  \* the text of the mouse-position label
    handled   \* what eventFilter returned for that event

vars == <<file, data, truss, view, err, stage, lastOp, again, edits, prior,
          draws, event, lbl_MousePos, handled>>

\* The variables of the event filter
gui == <<event, lbl_MousePos, handled>>

None == <<>>
Some(v) == <<v>>
Val(o) == o[1]

\* Python truthiness of an optional number: None and 0 are false.
TruthyNum(o) == o # <<>> /\ o[1] # 0
\* Python truthiness of an optional string: None and "" are false.
TruthyStr(o) == o # <<>> /\ o[1] # ""

Abs(n) == IF n < 0 THEN -n ELSE n

----------------------------------------------------------------------------
(* Text primitives, by table over the fields the model uses.               *)

\* str.strip(): the field without its surrounding white space.
Strip(s) ==
    CASE s = " A"   -> "A"
      [] s = " 0 "  -> "0"
      [] s = "  "   -> ""
      [] s = " # c" -> "# c"
      [] OTHER      -> s

\* str.lower()
Lower(s) ==
    CASE s = "NODE"  -> "node"
      [] s = "Link"  -> "link"
      [] s = "Steel" -> "steel"
      [] s = "STEEL" -> "steel"
      [] s = "Left"  -> "left"
      [] s = "RIGHT" -> "right"
      [] s = "A"     -> "a"
      [] s = "B"     -> "b"
      [] s = "L1"    -> "l1"
      [] s = "L2"    -> "l2"
      [] s = "L3"    -> "l3"
      [] s = "L4"    -> "l4"
      [] s = "L5"    -> "l5"
      [] s = "L6"    -> "l6"
      [] s = "B1"    -> "b1"
      [] OTHER       -> s

\* The proper prefixes that matter: <<s, p>> when s starts with p and s # p.
ProperPrefix ==
    { <<"nodes", "node">>, <<"linkage", "link">>, <<"materials", "material">>,
      <<"statics", "static">>, <<"# c", "#">>, <<"#node", "#">> }

\* str.startswith(p)
StartsWith(s, p) == s = p \/ <<s, p>> \in ProperPrefix

\* float(s): the fields that parse, with their values; every other field
\* raises ValueError.
FloatTable ==
    [ s \in {"0", "1", "2", "3", "4", "6", "-1", "3.0", "2.0", "1e0"} |->
        CASE s = "0"   -> 0
          [] s = "1"   -> 1
          [] s = "2"   -> 2
          [] s = "3"   -> 3
          [] s = "4"   -> 4
          [] s = "6"   -> 6
          [] s = "-1"  -> -1
          [] s = "3.0" -> 3
          [] s = "2.0" -> 2
          [] s = "1e0" -> 1 ]

IsFloat(s) == s \in DOMAIN FloatTable
FloatVal(s) == FloatTable[s]

----------------------------------------------------------------------------
(* Data classes                                                            *)

\* Rectangle.__init__: edges default to 0.
Rectangle(top, left, bottom, right) ==
    [top |-> top, left |-> left, bottom |-> bottom, right |-> right]

\* Material.__init__
Material == [uts |-> None, ys |-> None, E |-> None, staticFactor |-> None]

\* Node.__init__ with Position(x=x, y=y)
Node(nm, x, y) == [name |-> nm, x |-> x, y |-> y]

\* Link.__init__
Link(nm, n1, n2, width, thickness, material) ==
    [name |-> nm, node1_Name |-> n1, node2_Name |-> n2,
     length |-> None, angleRad |-> None, material |-> material,
     width |-> width, thickness |-> thickness, weight |-> None]

\* TrussModel.__init__
TrussModel ==
    [nodes |-> <<>>, links |-> <<>>, material |-> Material,
     rct |-> Rectangle(0, 0, 0, 0), leftReaction |-> 0, rightReaction |-> 0]

\* TrussModel.getNode: the first node with that name, None when there is none.
RECURSIVE GetNodeFrom(_, _, _)
GetNodeFrom(nodes, name, i) ==
    IF i > Len(nodes) THEN None
    ELSE IF nodes[i].name = name THEN Some(nodes[i])
    ELSE GetNodeFrom(nodes, name, i + 1)

\* getNode that returns the last node with that name.
getNodeLast(t, name) ==
    LET found == {i \in 1..Len(t.nodes) : t.nodes[i].name = name}
    IN  IF found = {} THEN None
        ELSE Some(t.nodes[CHOOSE i \in found : \A j \in found : j <= i])

getNode(t, name) == GetNodeFrom(t.nodes, name, 1)

----------------------------------------------------------------------------
(* Record parser: the loop of TrussController.ImportFromFile               *)

\* A parse step's outcome: the model so far and the exception raised, if any.
Outcome(t, e) == [truss |-> t, err |-> e]

\* ReadFloat with a lenient conversion: a field that is no number reads as 0.
ReadFloatLenient(cells, k) ==
    IF k + 1 > Len(cells) THEN [err |-> "IndexError", v |-> 0]
    ELSE IF ~IsFloat(cells[k + 1]) THEN [err |-> "", v |-> 0]
    ELSE [err |-> "", v |-> FloatVal(cells[k + 1])]

\* float(cells[k]) for the Python index k (the TLA+ index is k + 1):
\* IndexError when the cell is missing, ValueError when it is no number.
ReadFloat(cells, k) ==
    IF k + 1 > Len(cells) THEN [err |-> "IndexError", v |-> 0]
    ELSE IF ~IsFloat(cells[k + 1]) THEN [err |-> "ValueError", v |-> 0]
    ELSE [err |-> "", v |-> FloatVal(cells[k + 1])]

\* line.strip() is empty: the line holds no comma and only white space.
IsBlankLine(line) == Len(line) = 1 /\ Strip(line[1]) = ""

\* line.strip().startswith('#')
IsCommentLine(line) == StartsWith(Strip(line[1]), "#")

\* cells = [c.strip() for c in line.split(',')]
Cells(line) == [i \in 1..Len(line) |-> Strip(line[i])]

\* key.startswith('material'): material, uts, ys, E.  Each field is stored as
\* soon as it is parsed, so a failure leaves the earlier ones set.
ParseMaterial(t, cells) ==
    LET r1 == ReadFloat(cells, 1)
        t1 == [t EXCEPT !.material.uts = Some(r1.v)]
        r2 == ReadFloat(cells, 2)
        t2 == [t1 EXCEPT !.material.ys = Some(r2.v)]
        r3 == ReadFloat(cells, 3)
        t3 == [t2 EXCEPT !.material.E = Some(r3.v)]
    IN  IF r1.err # "" THEN Outcome(t, r1.err)
        ELSE IF r2.err # "" THEN Outcome(t1, r2.err)
        ELSE IF r3.err # "" THEN Outcome(t2, r3.err)
        ELSE Outcome(t3, "")

\* key.startswith('static'): static, factor
ParseStatic(t, cells) ==
    LET r1 == ReadFloat(cells, 1)
    IN  IF r1.err # "" THEN Outcome(t, r1.err)
        ELSE Outcome([t EXCEPT !.material.staticFactor = Some(r1.v)], "")

\* key.startswith('node'): node, name, x, y
ParseNode(t, cells) ==
    LET rx == ReadFloat(cells, 2)
        ry == ReadFloat(cells, 3)
    IN  IF rx.err # "" THEN Outcome(t, rx.err)
        ELSE IF ry.err # "" THEN Outcome(t, ry.err)
        ELSE Outcome([t EXCEPT !.nodes =
                         Append(@, Node(Strip(cells[2]), rx.v, ry.v))], "")

\* ParseLink with a bare link given width 0 and thickness 0 instead of None.
ParseLinkDefaults(t, cells) ==
    LET rw == ReadFloat(cells, 4)
        rt == ReadFloat(cells, 5)
    IN  IF Len(cells) < 4 THEN Outcome(t, "IndexError")
        ELSE IF Len(cells) >= 7
        THEN IF rw.err # "" THEN Outcome(t, rw.err)
             ELSE IF rt.err # "" THEN Outcome(t, rt.err)
             ELSE Outcome([t EXCEPT !.links =
                     Append(@, Link(cells[2], cells[3], cells[4],
                                    Some(rw.v), Some(rt.v), Some(cells[7])))], "")
        ELSE Outcome([t EXCEPT !.links =
                     Append(@, Link(cells[2], cells[3], cells[4],
                                    Some(0), Some(0), None))], "")

\* key.startswith('link'): link, name, node1, node2[, width, thickness, material]
ParseLink(t, cells) ==
    LET rw == ReadFloat(cells, 4)
        rt == ReadFloat(cells, 5)
    IN  IF Len(cells) < 4 THEN Outcome(t, "IndexError")
        ELSE IF Len(cells) >= 7
        THEN IF rw.err # "" THEN Outcome(t, rw.err)
             ELSE IF rt.err # "" THEN Outcome(t, rt.err)
             ELSE Outcome([t EXCEPT !.links =
                     Append(@, Link(cells[2], cells[3], cells[4],
                                    Some(rw.v), Some(rt.v), Some(cells[7])))], "")
        ELSE Outcome([t EXCEPT !.links =
                     Append(@, Link(cells[2], cells[3], cells[4],
                                    None, None, None))], "")

\* ParseLine without the test len(cells) < 2.
ParseLineNoShortTest(t, line) ==
    LET cells == Cells(line)
        key   == Lower(cells[1])
    IN  IF IsBlankLine(line) \/ IsCommentLine(line) THEN Outcome(t, "")
        ELSE IF StartsWith(key, "material") THEN ParseMaterial(t, cells)
        ELSE IF StartsWith(key, "static") THEN ParseStatic(t, cells)
        ELSE IF StartsWith(key, "node") THEN ParseNode(t, cells)
        ELSE IF StartsWith(key, "link") THEN ParseLink(t, cells)
        ELSE Outcome(t, "")

\* The body of the loop for one line.
ParseLine(t, line) ==
    LET cells == Cells(line)
        key   == Lower(cells[1])
    IN  IF IsBlankLine(line) \/ IsCommentLine(line) THEN Outcome(t, "")
        ELSE IF Len(cells) < 2 THEN Outcome(t, "")
        ELSE IF StartsWith(key, "material") THEN ParseMaterial(t, cells)
        ELSE IF StartsWith(key, "static") THEN ParseStatic(t, cells)
        ELSE IF StartsWith(key, "node") THEN ParseNode(t, cells)
        ELSE IF StartsWith(key, "link") THEN ParseLink(t, cells)
        ELSE Outcome(t, "")

\* for line in data: ..., stopping at the first exception.
RECURSIVE ParseFrom(_, _, _)
ParseFrom(t, lines, i) ==
    IF i > Len(lines) THEN Outcome(t, "")
    ELSE LET r == ParseLine(t, lines[i])
         IN  IF r.err # "" THEN r ELSE ParseFrom(r.truss, lines, i + 1)

\* ParseLines without the reset: the loop fills the model the controller has.
ParseLinesKeep(lines) == ParseFrom(truss, lines, 1)

\* self.truss = TrussModel(), then the loop.
ParseLines(lines) == ParseFrom(TrussModel, lines, 1)

----------------------------------------------------------------------------
(* Derivation engine: calcLinkVals and calcSupportReactions                *)

SteelDensity == 7850
DefaultDensity == 2700
\* g = 9.81, in hundredths
g == 981
\* The value both reactions are overwritten with, 6468.7, in hundredths
ReactionOverride == 646870
\* pi and pi / 2 in milliradians
Pi == 3142
HalfPi == 1571

\* The integer square root: the largest r with r * r <= n.
RECURSIVE ISqrtFrom(_, _)
ISqrtFrom(n, r) == IF (r + 1) * (r + 1) > n THEN r ELSE ISqrtFrom(n, r + 1)

\* math.hypot(dx, dy)
Hypot(dx, dy) == ISqrtFrom(dx * dx + dy * dy, 0)

\* atan(n / d) in milliradians for n >= 0, d > 0, n <= d
\* (t * (pi/4 + 0.273 * (1 - t)), exact at 0 and at 1 to the milliradian).
AtanUnit(n, d) == (n * (785 * d + 273 * (d - n))) \div (d * d)

\* atan(n / d) in milliradians for n >= 0, d > 0.
Atan(n, d) == IF n <= d THEN AtanUnit(n, d) ELSE HalfPi - AtanUnit(d, n)

\* atan2 as atan(y / x), with pi added whenever x < 0.
Atan2AddPi(y, x) ==
    IF x > 0 THEN (IF y >= 0 THEN Atan(y, x) ELSE -Atan(-y, x))
    ELSE IF x < 0 THEN (IF y >= 0 THEN Pi - Atan(y, -x) ELSE Pi + Atan(-y, -x))
    ELSE IF y > 0 THEN HalfPi
    ELSE IF y < 0 THEN -HalfPi
    ELSE 0

\* math.atan2(y, x) in milliradians, by quadrant.
Atan2(y, x) ==
    IF x > 0 THEN (IF y >= 0 THEN Atan(y, x) ELSE -Atan(-y, x))
    ELSE IF x < 0 THEN (IF y >= 0 THEN Pi - Atan(y, -x) ELSE Atan(-y, -x) - Pi)
    ELSE IF y > 0 THEN HalfPi
    ELSE IF y < 0 THEN -HalfPi
    ELSE 0

\* Density with the material tag compared as written, not in lower case.
DensityCaseSensitive(l) ==
    IF TruthyStr(l.material) /\ Val(l.material) = "steel"
    THEN SteelDensity ELSE DefaultDensity

\* The density chosen from the link's material tag.
Density(l) ==
    IF TruthyStr(l.material) /\ Lower(Val(l.material)) = "steel"
    THEN SteelDensity ELSE DefaultDensity

\* LinkVals with the weight added to the weight the link already has.
LinkValsAccumulate(t, l) ==
    LET n1 == getNode(t, l.node1_Name)
        n2 == getNode(t, l.node2_Name)
        dx == Val(n2).x - Val(n1).x
        dy == Val(n2).y - Val(n1).y
        length == Hypot(dx, dy)
        vol == length * (IF TruthyNum(l.width) THEN Val(l.width) ELSE 0)
                      * (IF TruthyNum(l.thickness) THEN Val(l.thickness) ELSE 0)
    IN  IF n1 # None /\ n2 # None
        THEN [l EXCEPT !.length = Some(length),
                       !.angleRad = Some(Atan2(dy, dx)),
                       !.weight = Some((IF l.weight # None THEN Val(l.weight) ELSE 0)
                                       + Density(l) * vol * g)]
        ELSE l

\* LinkVals that zeroes the derived fields of a link it cannot resolve.
LinkValsZeroUnresolved(t, l) ==
    LET n1 == getNode(t, l.node1_Name)
        n2 == getNode(t, l.node2_Name)
        dx == Val(n2).x - Val(n1).x
        dy == Val(n2).y - Val(n1).y
        length == Hypot(dx, dy)
        vol == length * (IF TruthyNum(l.width) THEN Val(l.width) ELSE 0)
                      * (IF TruthyNum(l.thickness) THEN Val(l.thickness) ELSE 0)
    IN  IF n1 # None /\ n2 # None
        THEN [l EXCEPT !.length = Some(length),
                       !.angleRad = Some(Atan2(dy, dx)),
                       !.weight = Some(Density(l) * vol * g)]
        ELSE [l EXCEPT !.length = Some(0), !.angleRad = Some(0), !.weight = Some(0)]

\* The body of calcLinkVals' loop for one link: a link with an endpoint that
\* resolves to no node is left as it is.
LinkVals(t, l) ==
    LET n1 == getNode(t, l.node1_Name)
        n2 == getNode(t, l.node2_Name)
        dx == Val(n2).x - Val(n1).x
        dy == Val(n2).y - Val(n1).y
        length == Hypot(dx, dy)
        vol == length * (IF TruthyNum(l.width) THEN Val(l.width) ELSE 0)
                      * (IF TruthyNum(l.thickness) THEN Val(l.thickness) ELSE 0)
    IN  IF n1 # None /\ n2 # None
        THEN [l EXCEPT !.length = Some(length),
                       !.angleRad = Some(Atan2(dy, dx)),
                       !.weight = Some(Density(l) * vol * g)]
        ELSE l

\* TrussController.calcLinkVals
calcLinkVals(t) ==
    [t EXCEPT !.links = [i \in 1..Len(t.links) |-> LinkVals(t, t.links[i])]]

\* sum(L.weight for L in links) over links whose weights are all set
RECURSIVE SumWeights(_, _)
SumWeights(links, i) ==
    IF i > Len(links) THEN 0 ELSE Val(links[i].weight) + SumWeights(links, i + 1)

\* Twice sumWx: the sum of (x1 + x2) * weight over the links (mx = 0.5 * (x1 + x2)).
RECURSIVE SumWx2(_, _)
SumWx2(t, i) ==
    IF i > Len(t.links) THEN 0
    ELSE LET li == t.links[i]
             n1 == Val(getNode(t, li.node1_Name))
             n2 == Val(getNode(t, li.node2_Name))
         IN  (n1.x + n2.x) * Val(li.weight) + SumWx2(t, i + 1)

\* Some link has an endpoint that resolves to no node.
HasUnresolved(t) ==
    \E i \in 1..Len(t.links) :
        \/ getNode(t, t.links[i].node1_Name) = None
        \/ getNode(t, t.links[i].node2_Name) = None

\* calcSupportReactions with the test W_total < 0 in place of W_total <= 0.
calcSupportReactionsStrict(t) ==
    LET leftNode  == getNode(t, "left")
        rightNode == getNode(t, "right")
        W_total   == SumWeights(t.links, 1)
        L         == Val(rightNode).x - Val(leftNode).x
    IN  IF leftNode = None \/ rightNode = None THEN Outcome(t, "")
        ELSE IF \E i \in 1..Len(t.links) : t.links[i].weight = None
        THEN Outcome(t, "TypeError")
        ELSE IF W_total < 0
        THEN Outcome([t EXCEPT !.leftReaction = 0, !.rightReaction = 0], "")
        ELSE IF Abs(L) = 0
        THEN Outcome([t EXCEPT !.leftReaction = W_total, !.rightReaction = 0], "")
        ELSE IF HasUnresolved(t) THEN Outcome(t, "AttributeError")
        ELSE Outcome([t EXCEPT !.leftReaction = ReactionOverride,
                               !.rightReaction = ReactionOverride], "")

\* calcSupportReactions without the degenerate-span case.
calcSupportReactionsNoSpanTest(t) ==
    LET leftNode  == getNode(t, "left")
        rightNode == getNode(t, "right")
        W_total   == SumWeights(t.links, 1)
    IN  IF leftNode = None \/ rightNode = None THEN Outcome(t, "")
        ELSE IF \E i \in 1..Len(t.links) : t.links[i].weight = None
        THEN Outcome(t, "TypeError")
        ELSE IF W_total <= 0
        THEN Outcome([t EXCEPT !.leftReaction = 0, !.rightReaction = 0], "")
        ELSE IF HasUnresolved(t) THEN Outcome(t, "AttributeError")
        ELSE Outcome([t EXCEPT !.leftReaction = ReactionOverride,
                               !.rightReaction = ReactionOverride], "")

\* calcSupportReactions without the early return for a missing support: the
\* first use of the node that is None raises.
calcSupportReactionsNeedsSupports(t) ==
    LET leftNode  == getNode(t, "left")
        rightNode == getNode(t, "right")
        W_total   == SumWeights(t.links, 1)
        L         == Val(rightNode).x - Val(leftNode).x
    IN  IF \E i \in 1..Len(t.links) : t.links[i].weight = None
        THEN Outcome(t, "TypeError")
        ELSE IF W_total <= 0
        THEN Outcome([t EXCEPT !.leftReaction = 0, !.rightReaction = 0], "")
        ELSE IF leftNode = None \/ rightNode = None THEN Outcome(t, "AttributeError")
        ELSE IF Abs(L) = 0
        THEN Outcome([t EXCEPT !.leftReaction = W_total, !.rightReaction = 0], "")
        ELSE IF HasUnresolved(t) THEN Outcome(t, "AttributeError")
        ELSE Outcome([t EXCEPT !.leftReaction = ReactionOverride,
                               !.rightReaction = ReactionOverride], "")

\* TrussController.calcSupportReactions: the model afterwards and the exception
\* raised, if any.
calcSupportReactions(t) ==
    LET leftNode  == getNode(t, "left")
        rightNode == getNode(t, "right")
        W_total   == SumWeights(t.links, 1)
        L         == Val(rightNode).x - Val(leftNode).x
    IN  IF leftNode = None \/ rightNode = None THEN Outcome(t, "")
        ELSE IF \E i \in 1..Len(t.links) : t.links[i].weight = None
        THEN Outcome(t, "TypeError")
        ELSE IF W_total <= 0
        THEN Outcome([t EXCEPT !.leftReaction = 0, !.rightReaction = 0], "")
        ELSE IF Abs(L) = 0
        THEN Outcome([t EXCEPT !.leftReaction = W_total, !.rightReaction = 0], "")
        ELSE IF HasUnresolved(t) THEN Outcome(t, "AttributeError")
        ELSE Outcome([t EXCEPT !.leftReaction = ReactionOverride,
                               !.rightReaction = ReactionOverride], "")

----------------------------------------------------------------------------
(* TrussModel.getCenterPt and the view: displayReport, buildScene          *)

\* The padding buildScene adds on every side of the bounding rectangle
Pad == 50
\* The grid spacing, DeltaX = DeltaY
GridDelta == 10
\* The weight every link tooltip shows, 1848.2, in hundredths
TipWeight == 184820
\* The reaction every support tooltip shows, 6468.7, in hundredths
TipReaction == 646870

Min(a, b) == IF a < b THEN a ELSE b
Max(a, b) == IF a > b THEN a ELSE b

\* The loop of getCenterPt: the rectangle grown to hold nodes[i..].
RECURSIVE GrowRect(_, _, _)
GrowRect(rct, nodes, i) ==
    IF i > Len(nodes) THEN rct
    ELSE GrowRect(Rectangle(Max(rct.top, nodes[i].y), Min(rct.left, nodes[i].x),
                            Min(rct.bottom, nodes[i].y), Max(rct.right, nodes[i].x)),
                  nodes, i + 1)

\* TrussModel.getCenterPt: without nodes self.rct is left as it is.
getCenterPt(t) ==
    IF t.nodes = <<>> THEN t
    ELSE [t EXCEPT !.rct =
            GrowRect(Rectangle(t.nodes[1].y, t.nodes[1].x, t.nodes[1].y, t.nodes[1].x),
                     t.nodes, 1)]

\* TrussView.__init__: empty widgets and an empty scene.
EmptyScene == [grid |-> None, links |-> <<>>, nodes |-> <<>>]
TrussView ==
    [longName |-> None, longLength |-> None, longNode1 |-> None,
     longNode2 |-> None, report |-> None, scene |-> EmptyScene]

\* The text 'N/A' in a numeric column
NA == <<>>

\* One row of the report: the fallbacks 'N/A' and 0 of the format call.
ReportRow(l) ==
    [name |-> l.name, node1 |-> l.node1_Name, node2 |-> l.node2_Name,
     length |-> Val(l.length), angle |-> Val(l.angleRad),
     material  |-> IF TruthyStr(l.material) THEN l.material ELSE Some("N/A"),
     width     |-> IF TruthyNum(l.width) THEN l.width ELSE NA,
     thickness |-> IF TruthyNum(l.thickness) THEN l.thickness ELSE NA,
     weight    |-> IF TruthyNum(l.weight) THEN Val(l.weight) ELSE 0]

\* The search for the longest link: links[i..] against the longest so far.
RECURSIVE LongestFrom(_, _, _)
LongestFrom(links, longest, i) ==
    IF i > Len(links) THEN longest
    ELSE LongestFrom(links,
                     IF /\ TruthyNum(links[i].length)
                        /\ TruthyNum(longest.length)
                        /\ Val(links[i].length) > Val(longest.length)
                     THEN links[i] ELSE longest,
                     i + 1)

\* TrussView.displayReport: the widgets afterwards and the exception raised.
\* Formatting a length or an angle that is None raises TypeError before any
\* widget is written.
displayReport(t, v) ==
    LET longest == LongestFrom(t.links, t.links[1], 1)
        report  == [staticFactor |-> t.material.staticFactor,
                    uts |-> t.material.uts, ys |-> t.material.ys,
                    E |-> t.material.E,
                    rows |-> [i \in 1..Len(t.links) |-> ReportRow(t.links[i])]]
    IN  IF \E i \in 1..Len(t.links) :
              t.links[i].length = None \/ t.links[i].angleRad = None
        THEN [view |-> v, err |-> "TypeError"]
        ELSE IF t.links = <<>>
        THEN [view |-> [v EXCEPT !.report = Some(report)], err |-> ""]
        ELSE [view |-> [v EXCEPT !.report = Some(report),
                                 !.longName = Some(longest.name),
                                 !.longLength = longest.length,
                                 !.longNode1 = Some(longest.node1_Name),
                                 !.longNode2 = Some(longest.node2_Name)],
              err |-> ""]

\* Twice the scene x and y of a model point: x - cx and -(y - cy), where
\* (cx, cy) is the centre of rct.
SceneX2(rct, x) == 2 * x - (rct.left + rct.right)
SceneY2(rct, y) == -(2 * y - (rct.bottom + rct.top))

\* math.degrees, to the degree
Degrees(a) == (a * 180) \div Pi

\* The name is one of the support names, ignoring case.
IsSupportName(nm) == Lower(nm) \in {"left", "right"}

\* TrussView.drawAGrid with CenterX = CenterY = 0: the background rectangle
\* and the number of vertical and of horizontal lines.
drawAGrid(Width, Height) ==
    [width |-> Width, height |-> Height,
     vlines |-> Width \div GridDelta + 1, hlines |-> Height \div GridDelta + 1]

\* The shape and tooltip drawLinks makes for a link whose endpoints resolve.
LinkItem(t, l) ==
    LET n1 == Val(getNode(t, l.node1_Name))
        n2 == Val(getNode(t, l.node2_Name))
    IN  [name |-> l.name,
         x1 |-> SceneX2(t.rct, n1.x), y1 |-> SceneY2(t.rct, n1.y),
         x2 |-> SceneX2(t.rct, n2.x), y2 |-> SceneY2(t.rct, n2.y),
         tip |-> [start |-> <<n1.x, n1.y, l.node1_Name>>,
                  end |-> <<n2.x, n2.y, l.node2_Name>>,
                  length |-> l.length,
                  angle |-> IF l.angleRad # None THEN Degrees(Val(l.angleRad)) ELSE 0,
                  width |-> IF TruthyNum(l.width) THEN l.width ELSE NA,
                  thickness |-> IF TruthyNum(l.thickness) THEN l.thickness ELSE NA,
                  material |-> l.material,
                  weight |-> TipWeight]]

\* The loop of drawLinks from link i on: unresolved links are skipped, and a
\* resolved link whose length is None raises TypeError in the tooltip format,
\* which leaves the items drawn so far.
RECURSIVE DrawLinksFrom(_, _, _)
DrawLinksFrom(t, items, i) ==
    IF i > Len(t.links) THEN [items |-> items, err |-> ""]
    ELSE LET l == t.links[i]
         IN  IF getNode(t, l.node1_Name) = None \/ getNode(t, l.node2_Name) = None
             THEN DrawLinksFrom(t, items, i + 1)
             ELSE IF l.length = None THEN [items |-> items, err |-> "TypeError"]
             ELSE DrawLinksFrom(t, Append(items, LinkItem(t, l)), i + 1)

\* TrussView.drawLinks
drawLinks(t) == DrawLinksFrom(t, <<>>, 1)

\* The shape, tooltip and label drawNodes makes for a node.
NodeItem(t, n) ==
    [name |-> n.name,
     x |-> SceneX2(t.rct, n.x), y |-> SceneY2(t.rct, n.y),
     kind |-> IF Lower(n.name) = "left" THEN "pivot"
              ELSE IF Lower(n.name) = "right" THEN "roller" ELSE "ellipse",
     tipName |-> n.name,
     tipReaction |-> IF Lower(n.name) = "left" THEN Some(TipReaction)
                     ELSE IF Lower(n.name) = "right" THEN Some(TipReaction)
                     ELSE None,
     label |-> n.name]

\* TrussView.drawNodes
drawNodes(t) == [i \in 1..Len(t.nodes) |-> NodeItem(t, t.nodes[i])]

\* buildScene with the whole padding of the width put on the left edge.
buildSceneLopsided(t, v) ==
    LET t1  == getCenterPt(t)
        rct == Rectangle(t1.rct.top + Pad, t1.rct.left - 2 * Pad,
                         t1.rct.bottom - Pad, t1.rct.right)
        t2  == [t1 EXCEPT !.rct = rct]
        grid == drawAGrid(Abs(rct.right - rct.left), Abs(rct.top - rct.bottom))
        dl  == drawLinks(t2)
    IN  IF dl.err # ""
        THEN [truss |-> t2, err |-> dl.err,
              view |-> [v EXCEPT !.scene =
                          [grid |-> Some(grid), links |-> dl.items, nodes |-> <<>>]]]
        ELSE [truss |-> t2, err |-> "",
              view |-> [v EXCEPT !.scene =
                          [grid |-> Some(grid), links |-> dl.items,
                           nodes |-> drawNodes(t2)]]]

\* TrussView.buildScene: the model (its rct is recomputed and padded in place),
\* the scene and the exception raised, if any.
buildScene(t, v) ==
    LET t1  == getCenterPt(t)
        rct == Rectangle(t1.rct.top + Pad, t1.rct.left - Pad,
                         t1.rct.bottom - Pad, t1.rct.right + Pad)
        t2  == [t1 EXCEPT !.rct = rct]
        grid == drawAGrid(Abs(rct.right - rct.left), Abs(rct.top - rct.bottom))
        dl  == drawLinks(t2)
    IN  IF dl.err # ""
        THEN [truss |-> t2, err |-> dl.err,
              view |-> [v EXCEPT !.scene =
                          [grid |-> Some(grid), links |-> dl.items, nodes |-> <<>>]]]
        ELSE [truss |-> t2, err |-> "",
              view |-> [v EXCEPT !.scene =
                          [grid |-> Some(grid), links |-> dl.items,
                           nodes |-> drawNodes(t2)]]]

----------------------------------------------------------------------------
(* TrussController.ImportFromFile                                          *)

\* The controller after ImportFromFile(lines): the model, the view, the
\* exception that ended the call ("" when it returned) and the step reached.
\* An exception leaves the model as the step that raised it left it.
ImportFromFile(lines, v) ==
    LET p  == ParseLines(lines)
        t1 == calcLinkVals(p.truss)
        r  == calcSupportReactions(t1)
        d  == displayReport(r.truss, v)
        b  == buildScene(r.truss, d.view)
    IN  IF p.err # ""
        THEN [truss |-> p.truss, view |-> v, err |-> p.err, stage |-> "parse"]
        ELSE IF r.err # ""
        THEN [truss |-> r.truss, view |-> v, err |-> r.err,
              stage |-> "calcSupportReactions"]
        ELSE IF d.err # ""
        THEN [truss |-> r.truss, view |-> d.view, err |-> d.err,
              stage |-> "displayReport"]
        ELSE IF b.err # ""
        THEN [truss |-> b.truss, view |-> b.view, err |-> b.err,
              stage |-> "drawTruss"]
        ELSE [truss |-> b.truss, view |-> b.view, err |-> "", stage |-> "done"]

----------------------------------------------------------------------------
(* The application: a file on disk, opened with MainWindow.OpenFile        *)

\* The longest file
MaxLines == 3

\* The lines a file is written from.
Lines ==
    { <<"node", "left", "0", "0">>,
      <<"NODE", "right", "6", " 0 ">>,
      <<"node", "A", "foo", "2">>,
      <<"link", "L1", "left", "right", "1", "1", "steel">>,
      <<"link", "L2", "left", "right">>,
      <<"Link", "L3", "left", "ghost", "2.0", "1e0", "Steel">>,
      <<"link", "L4", "right", "left", "foo", "1">>,
      <<"link", "L5">>,
      <<"link", "L6", "left", "right", "1", "foo", "steel">>,
      <<"materials", "1", "foo", "3">>,
      <<"static", "2.0">>,
      <<"static", "x">>,
      <<"  ">>,
      <<" # c", "x">>,
      <<"node">>,
      <<"beam", "B1", "1">> }

Init ==
    /\ file = <<>>
    /\ data = <<>>
    /\ truss = TrussModel
    /\ view = TrussView
    /\ err = ""
    /\ stage = "none"
    /\ lastOp = "init"
    /\ again = FALSE
    /\ edits = 0
    /\ prior = <<0, 0>>
    /\ draws = 0
    /\ event = None
    /\ lbl_MousePos = None
    /\ handled = FALSE

\* A line is added to the file on disk.
WriteLine ==
    /\ Len(file) < MaxLines
    /\ \E line \in Lines : file' = Append(file, line)
    /\ UNCHANGED <<data, truss, view, err, stage, lastOp, again, edits, prior, draws, gui>>

\* The controller is handed `lines`.
Import(lines) ==
    LET r == ImportFromFile(lines, view)
    IN  /\ data' = lines
        /\ truss' = r.truss
        /\ view' = r.view
        /\ err' = r.err
        /\ stage' = r.stage
        /\ lastOp' = "ImportFromFile"
        /\ again' = FALSE
        /\ prior' = <<truss.leftReaction, truss.rightReaction>>
        /\ draws' = 0
        /\ UNCHANGED gui

\* MainWindow.OpenFile: the file is read and handed to the controller.
OpenFile ==
    /\ Import(file)
    /\ UNCHANGED <<file, edits>>

Next == WriteLine \/ OpenFile

Spec == Init /\ [][Next]_vars

----------------------------------------------------------------------------
(* The controller used directly: a model is imported from a fixed file,    *)
(* its links are changed with Link.set, and calcLinkVals and               *)
(* calcSupportReactions are called on it.                                  *)

\* The most Link.set calls in a run
MaxEdits == 2

\* The most drawTruss calls after an import
MaxDraws == 2

\* left (0,0) and right (6,0) joined by one steel link
FxBeam ==
    << <<"node", "left", "0", "0">>,
       <<"node", "right", "6", "0">>,
       <<"link", "L1", "left", "right", "1", "1", "steel">> >>

\* a triangle: links in three directions, one of them bare
FxTriangle ==
    << <<"node", "left", "0", "0">>,
       <<"node", "right", "6", "0">>,
       <<"node", " A", "3.0", "4">>,
       <<"link", "L1", "left", "A", "2", "1", "alu">>,
       <<"link", "L2", "right", "left", "1", "1", "Steel">>,
       <<"link", "L3", "A", "left">> >>

\* left and right on one vertical: the span is 0
FxColumn ==
    << <<"node", "left", "0", "0">>,
       <<"node", "right", "0", "4">>,
       <<"link", "L1", "left", "right", "1", "1", "steel">> >>

\* both supports and a link to a node that does not exist
FxDangling ==
    << <<"node", "left", "0", "0">>,
       <<"node", "right", "6", "0">>,
       <<"link", "L1", "left", "right", "1", "1", "steel">>,
       <<"link", "L3", "left", "ghost", "2", "1", "steel">> >>

\* no node named "left" or "right": the support names are in other letter
\* cases; the first link has length 0 and the two after it are equally long
FxFree ==
    << <<"materials", "4", "3", "2">>,
       <<"node", "Left", "0", "4">>,
       <<"node", "RIGHT", "3", "4">>,
       <<"link", "L1", "Left", "Left", "1", "1", "alu">>,
       <<"link", "L2", "RIGHT", "Left", "1", "1", "steel">>,
       <<"link", "L3", "Left", "RIGHT">> >>

\* no node and no link
FxEmpty == << <<"static", "2.0">> >>

\* both support names twice: the later "right" is above "left", the later
\* "left" lies between the first two nodes
FxTwins ==
    << <<"node", "left", "0", "0">>,
       <<"node", "right", "6", "0">>,
       <<"node", "right", "0", "4">>,
       <<"node", "left", "3", "0">>,
       <<"link", "L1", "left", "right", "1", "1", "steel">> >>

Fixtures == {FxBeam, FxTriangle, FxColumn, FxDangling, FxFree, FxEmpty, FxTwins}

\* The arguments Link.set is called with (None: the argument is not passed).
NoArgs ==
    [node1 |-> None, node2 |-> None, length |-> None, angleRad |-> None,
     material |-> None, width |-> None, thickness |-> None, weight |-> None]

LinkSetArgs ==
    { [NoArgs EXCEPT !.width = Some(-1)],
      [NoArgs EXCEPT !.width = Some(0)],
      [NoArgs EXCEPT !.node2 = Some("ghost")] }

\* Link.set: every argument that is not None replaces the field.
LinkSet(l, a) ==
    [l EXCEPT !.node1_Name = IF a.node1 # None THEN Val(a.node1) ELSE @,
              !.node2_Name = IF a.node2 # None THEN Val(a.node2) ELSE @,
              !.length     = IF a.length # None THEN a.length ELSE @,
              !.angleRad   = IF a.angleRad # None THEN a.angleRad ELSE @,
              !.material   = IF a.material # None THEN a.material ELSE @,
              !.width      = IF a.width # None THEN a.width ELSE @,
              !.thickness  = IF a.thickness # None THEN a.thickness ELSE @,
              !.weight     = IF a.weight # None THEN a.weight ELSE @]

\* ImportFromFile is called with the lines of a fixture.
ImportFixture ==
    /\ \E f \in Fixtures : Import(f)
    /\ UNCHANGED <<file, edits>>

\* Link.set is called on a link of the model.
SetLink ==
    /\ edits < MaxEdits
    /\ \E i \in 1..Len(truss.links), a \in LinkSetArgs :
          truss' = [truss EXCEPT !.links[i] = LinkSet(@, a)]
    /\ edits' = edits + 1
    /\ err' = ""
    /\ lastOp' = "Link.set"
    /\ again' = FALSE
    /\ prior' = <<truss.leftReaction, truss.rightReaction>>
    /\ UNCHANGED <<file, data, view, stage, draws, gui>>

\* TrussController.calcLinkVals is called.
CalcLinkVals ==
    /\ truss' = calcLinkVals(truss)
    /\ err' = ""
    /\ lastOp' = "calcLinkVals"
    /\ again' = (lastOp = "calcLinkVals")
    /\ prior' = <<truss.leftReaction, truss.rightReaction>>
    /\ UNCHANGED <<file, data, view, stage, edits, draws, gui>>

\* TrussController.calcSupportReactions is called.
CalcSupportReactions ==
    LET r == calcSupportReactions(truss)
    IN  /\ truss' = r.truss
        /\ err' = r.err
        /\ lastOp' = "calcSupportReactions"
        /\ again' = (lastOp = "calcSupportReactions")
        /\ prior' = <<truss.leftReaction, truss.rightReaction>>
        /\ UNCHANGED <<file, data, view, stage, edits, draws, gui>>

\* The scene shown was built from the model as it is now.
SceneBuilt ==
    \/ lastOp = "drawTruss" /\ err = ""
    \/ lastOp = "ImportFromFile" /\ stage = "done"

\* TrussController.drawTruss is called.
DrawTruss ==
    LET b == buildScene(truss, view)
    IN  /\ draws < MaxDraws
        /\ truss' = b.truss
        /\ view' = b.view
        /\ err' = b.err
        /\ lastOp' = "drawTruss"
        /\ again' = SceneBuilt
        /\ prior' = <<truss.leftReaction, truss.rightReaction>>
        /\ draws' = draws + 1
        /\ UNCHANGED <<file, data, stage, edits, gui>>

NextApi == ImportFixture \/ SetLink \/ CalcLinkVals \/ CalcSupportReactions

SpecApi == Init /\ [][NextApi]_vars

\* The view used directly: a model is imported, its links are changed with
\* Link.set, and drawTruss is called on it.
NextView == ImportFixture \/ SetLink \/ DrawTruss

SpecView == Init /\ [][NextView]_vars

----------------------------------------------------------------------------
(* The event filter: MainWindow.eventFilter and                            *)
(* TrussController.handleSceneEvent.  Scene positions are in thousandths.  *)

\* The event types that reach the filter
EventKinds ==
    {"GraphicsSceneMouseMove", "GraphicsSceneMousePress",
     "GraphicsSceneMouseRelease", "GraphicsSceneWheel"}

\* The scene coordinates of an event, in thousandths
Coords == {-1235, -5, 0, 15}

\* round(v, 2) of v thousandths, in hundredths: the nearest hundredth, and
\* either neighbour when v lies halfway (the binary value of the float decides).
Round2(v) ==
    LET q == v \div 10
        r == v % 10
    IN  IF r < 5 THEN {q} ELSE IF r > 5 THEN {q + 1} ELSE {q, q + 1}

\* handleSceneEvent that consumes the mouse moves it reports.
handleSceneEventConsuming(e) ==
    IF e.kind = "GraphicsSceneMouseMove"
    THEN { [consumed |-> TRUE, info_str |-> Some(<<x_rounded, y_rounded>>)] :
             x_rounded \in Round2(e.x), y_rounded \in Round2(-e.y) }
    ELSE { [consumed |-> FALSE, info_str |-> None] }

\* TrussController.handleSceneEvent: the pairs (consumed, info_str) it can
\* return; <<x, y>> stands for the text "Mouse: x=<x>, y=<y>".
handleSceneEvent(e) ==
    IF e.kind = "GraphicsSceneMouseMove"
    THEN { [consumed |-> FALSE, info_str |-> Some(<<x_rounded, y_rounded>>)] :
             x_rounded \in Round2(e.x), y_rounded \in Round2(-e.y) }
    ELSE { [consumed |-> FALSE, info_str |-> None] }

\* super().eventFilter(obj, event): the base class filters nothing.
SuperEventFilter == FALSE

\* MainWindow.eventFilter for an event of the scene.
SceneEvent ==
    /\ \E kind \in EventKinds, x \in Coords, y \in Coords :
          LET e == [kind |-> kind, x |-> x, y |-> y]
          IN  \E r \in handleSceneEvent(e) :
                /\ event' = Some([obj |-> "scene", kind |-> kind, x |-> x, y |-> y,
                                  result |-> Some(r)])
                /\ lbl_MousePos' = IF r.info_str # None THEN r.info_str
                                   ELSE lbl_MousePos
                /\ handled' = IF r.consumed THEN TRUE ELSE SuperEventFilter
    /\ UNCHANGED <<file, data, truss, view, err, stage, lastOp, again, edits, prior, draws>>

\* MainWindow.eventFilter for an event of another object: the controller is
\* not asked.
OtherEvent ==
    /\ \E kind \in EventKinds, x \in Coords, y \in Coords :
          event' = Some([obj |-> "other", kind |-> kind, x |-> x, y |-> y,
                         result |-> None])
    /\ handled' = SuperEventFilter
    /\ UNCHANGED <<file, data, truss, view, err, stage, lastOp, again, edits, prior, draws>>
    /\ UNCHANGED lbl_MousePos

NextEvents == SceneEvent \/ OtherEvent

SpecEvents == Init /\ [][NextEvents]_vars

----------------------------------------------------------------------------
(* Properties                                                              *)

IsImported == lastOp = "ImportFromFile"

\* calcLinkVals was the last thing to write the links' derived fields.
LinksDerived == lastOp = "calcLinkVals" \/ (IsImported /\ stage # "parse")

\* calcSupportReactions was called on the model as it is now.
ReactionsRan ==
    \/ lastOp = "calcSupportReactions"
    \/ IsImported /\ stage \in {"calcSupportReactions", "displayReport", "drawTruss", "done"}

SupportsExist(t) == getNode(t, "left") # None /\ getNode(t, "right") # None
WeightsSet(t) == \A i \in 1..Len(t.links) : t.links[i].weight # None
TotalWeight(t) == SumWeights(t.links, 1)
Span(t) == Val(getNode(t, "right")).x - Val(getNode(t, "left")).x

\* C1: with both supports, every link resolved, total weight W > 0 and a span
\* that is not 0, calcSupportReactions leaves
\* rightReaction = W * (xCG - xLeft) / span and leftReaction = W - rightReaction
\* (stated without the divisions: 2 * span * rightReaction = 2 * sumWx - 2 * W * xLeft).
C1_ReactionsFollowBeamFormula ==
    ( /\ ReactionsRan
      /\ SupportsExist(truss)
      /\ WeightsSet(truss)
      /\ ~HasUnresolved(truss)
      /\ TotalWeight(truss) > 0
      /\ Span(truss) # 0 )
    => /\ 2 * Span(truss) * truss.rightReaction =
            SumWx2(truss, 1) - 2 * TotalWeight(truss) * Val(getNode(truss, "left")).x
       /\ truss.leftReaction = TotalWeight(truss) - truss.rightReaction

\* C2: with both supports and a sum of the link weights that is <= 0,
\* calcSupportReactions leaves both reactions at exactly 0, whatever they were.
C2_NonPositiveWeightZeroReactions ==
    ( /\ ReactionsRan
      /\ SupportsExist(truss)
      /\ WeightsSet(truss)
      /\ TotalWeight(truss) <= 0 )
    => truss.leftReaction = 0 /\ truss.rightReaction = 0

\* C2 witness: a direct call found reactions that were not 0 and a negative
\* total weight, and zeroed them.
C2_Witness ==
    /\ lastOp = "calcSupportReactions"
    /\ SupportsExist(truss)
    /\ WeightsSet(truss)
    /\ TotalWeight(truss) < 0
    /\ prior[1] # 0 /\ prior[2] # 0
    /\ truss.leftReaction = 0 /\ truss.rightReaction = 0

\* C3 as claimed: with both supports and a span of 0, calcSupportReactions
\* leaves leftReaction = W_total and rightReaction = 0.
C3_DegenerateSpanAsClaimed ==
    ( /\ ReactionsRan
      /\ SupportsExist(truss)
      /\ WeightsSet(truss)
      /\ Span(truss) = 0 )
    => truss.leftReaction = TotalWeight(truss) /\ truss.rightReaction = 0

\* C3 amended: with both supports, a span of 0 and a total weight that is not
\* negative, calcSupportReactions leaves leftReaction = W_total and
\* rightReaction = 0; with a negative total weight both are 0.
C3_DegenerateSpan ==
    ( /\ ReactionsRan
      /\ SupportsExist(truss)
      /\ WeightsSet(truss)
      /\ Span(truss) = 0 )
    => IF TotalWeight(truss) >= 0
       THEN truss.leftReaction = TotalWeight(truss) /\ truss.rightReaction = 0
       ELSE truss.leftReaction = 0 /\ truss.rightReaction = 0

\* C3 witness: a span of 0 under a positive total weight.
C3_Witness ==
    /\ ReactionsRan
    /\ SupportsExist(truss)
    /\ WeightsSet(truss)
    /\ Span(truss) = 0
    /\ TotalWeight(truss) > 0
    /\ truss.leftReaction = TotalWeight(truss)
    /\ truss.rightReaction = 0

\* C4: an import whose lines all parse runs to completion, also when a link
\* names a node that is not in the model.
C4_UnresolvedLinkIsNoError ==
    (IsImported /\ ParseLines(data).err = "") => (stage = "done" /\ err = "")

\* C5: an import that fails on a numeric parse error after an import that
\* succeeded leaves the controller's model (nodes, links, material, reactions)
\* as it was.
C5_FailedImportKeepsModel ==
    [][ ( /\ lastOp' = "ImportFromFile"
          /\ IsImported /\ stage = "done"
          /\ stage' = "parse" /\ err' = "ValueError" )
        => /\ truss'.nodes = truss.nodes
           /\ truss'.links = truss.links
           /\ truss'.material = truss.material
           /\ truss'.leftReaction = truss.leftReaction
           /\ truss'.rightReaction = truss.rightReaction ]_vars

\* The record kind a line's first field selects, "" when it selects none.
KindOf(line) ==
    LET key == Lower(Strip(line[1]))
    IN  IF StartsWith(key, "material") THEN "material"
        ELSE IF StartsWith(key, "static") THEN "static"
        ELSE IF StartsWith(key, "node") THEN "node"
        ELSE IF StartsWith(key, "link") THEN "link"
        ELSE ""

\* A line the parser is to ignore: blank, a comment, fewer than 2 fields, or a
\* first field that selects no record kind.
IsIgnored(line) ==
    \/ IsBlankLine(line)
    \/ IsCommentLine(line)
    \/ Len(line) < 2
    \/ KindOf(line) = ""

\* The places of a record's numeric fields.
NumericFields(line) ==
    CASE KindOf(line) = "material" -> {2, 3, 4}
      [] KindOf(line) = "static"   -> {2}
      [] KindOf(line) = "node"     -> {3, 4}
      [] KindOf(line) = "link"     -> IF Len(line) >= 7 THEN {5, 6} ELSE {}
      [] OTHER                     -> {}

\* A record with a numeric field that is no floating-point number.
HasBadNumber(line) ==
    /\ ~IsIgnored(line)
    /\ \E k \in NumericFields(line) : k <= Len(line) /\ ~IsFloat(Strip(line[k]))

\* C6: an import of lines with a record whose numeric field is no number ends
\* in an exception raised while parsing: no link is derived, and the report and
\* the scene stay what they were.
C6_BadNumberFailsImport ==
    [][ ( /\ lastOp' = "ImportFromFile"
          /\ \E i \in 1..Len(data') : HasBadNumber(data'[i]) )
        => /\ err' \in {"ValueError", "IndexError"}
           /\ stage' = "parse"
           /\ view' = view
           /\ truss'.leftReaction = 0 /\ truss'.rightReaction = 0
           /\ \A i \in 1..Len(truss'.links) :
                /\ truss'.links[i].length = None
                /\ truss'.links[i].angleRad = None
                /\ truss'.links[i].weight = None ]_vars

\* C6 witness: a ValueError ended an import that had parsed a link, after an
\* import that had shown a report.
C6_Witness ==
    /\ IsImported
    /\ \E i \in 1..Len(data) : HasBadNumber(data[i])
    /\ err = "ValueError"
    /\ stage = "parse"
    /\ truss.links # <<>>
    /\ view.report # None

\* A link line: neither blank nor a comment, with a first field that selects
\* the link record.
IsLinkLine(line) ==
    ~IsBlankLine(line) /\ ~IsCommentLine(line) /\ KindOf(line) = "link"

\* A link line with fewer than 7 fields
ShortLink(line) == IsLinkLine(line) /\ Len(line) < 7

\* A link line with 4, 5 or 6 fields
BareLink(line) == ShortLink(line) /\ Len(line) >= 4

\* A link line with 4 fields or more
FullLink(line) == IsLinkLine(line) /\ Len(line) >= 4

\* The lines apart from the short ones parse by themselves without an exception.
OthersParse(lines, short(_)) ==
    \A i \in 1..Len(lines) :
        short(lines[i]) \/ ParseLine(TrussModel, lines[i]).err = ""

\* The import raised nothing while parsing, the model's links are the lines
\* for which made holds, in order, and each of them for which short holds is a
\* Link with the line's three names and no width, thickness or material.
ShortLinksAreBare(made(_), short(_)) ==
    /\ stage # "parse"
    /\ Len(truss.links) = Len(SelectSeq(data, made))
    /\ \A k \in 1..Len(truss.links) :
          LET line == SelectSeq(data, made)[k]
              l    == truss.links[k]
          IN  short(line) =>
                /\ l.name = Strip(line[2])
                /\ l.node1_Name = Strip(line[3])
                /\ l.node2_Name = Strip(line[4])
                /\ l.width = None /\ l.thickness = None /\ l.material = None

\* C7 as claimed: every link line with fewer than 7 fields is accepted without
\* an exception and appends a Link with no width, thickness or material.
C7_ShortLinkAsClaimed ==
    (IsImported /\ OthersParse(data, ShortLink))
    => ShortLinksAreBare(IsLinkLine, ShortLink)

\* C7 amended: every link line with 4, 5 or 6 fields is accepted without an
\* exception and appends a Link with no width, thickness or material.
C7_BareLink ==
    (IsImported /\ OthersParse(data, BareLink))
    => ShortLinksAreBare(FullLink, BareLink)

\* C7 witness: an import that ran to its end made a bare Link.
C7_Witness ==
    /\ IsImported /\ stage = "done"
    /\ \E i \in 1..Len(data) : BareLink(data[i]) /\ Len(data[i]) > 4
    /\ \E k \in 1..Len(truss.links) :
          truss.links[k].width = None /\ truss.links[k].material = None

\* The lines without those the parser is to ignore.
Kept(lines) == SelectSeq(lines, LAMBDA l : ~IsIgnored(l))

\* C8: the ignored lines change nothing: the import of the lines and the
\* import of the lines without the ignored ones end alike, in the same model.
C8_IgnoredLinesChangeNothing ==
    IsImported =>
        LET r == ImportFromFile(Kept(data), TrussView)
        IN  /\ r.truss = truss
            /\ r.err = err
            /\ r.stage = stage

\* C8 witness: an import that ran to its end over lines of which some were
\* ignored, with nodes in the model.
C8_Witness ==
    /\ IsImported /\ stage = "done"
    /\ \E i \in 1..Len(data) : IsIgnored(data[i])
    /\ truss.nodes # <<>>

\* C9: a call of calcLinkVals right after calcLinkVals has run leaves every
\* link as it is.
C9_CalcLinkValsIdempotent ==
    [][ (LinksDerived /\ lastOp' = "calcLinkVals") => truss'.links = truss.links ]_vars

\* C9 witness: calcLinkVals called twice in a row, on a model with a link that
\* has a weight.
C9_Witness ==
    /\ lastOp = "calcLinkVals" /\ again
    /\ \E i \in 1..Len(truss.links) : TruthyNum(truss.links[i].weight)

\* Both of the link's endpoints resolve to nodes.
Resolved(t, l) == getNode(t, l.node1_Name) # None /\ getNode(t, l.node2_Name) # None

C11_WeightFormula ==
    LinksDerived =>
        \A i \in 1..Len(truss.links) :
            LET l == truss.links[i]
                density   == IF l.material # None /\ Lower(Val(l.material)) = "steel"
                             THEN 7850 ELSE 2700
                width     == IF l.width = None THEN 0 ELSE Val(l.width)
                thickness == IF l.thickness = None THEN 0 ELSE Val(l.thickness)
            IN  Resolved(truss, l) =>
                  /\ l.length # None
                  /\ l.weight = Some(density * Val(l.length) * width * thickness * 981)

\* C11 witness: calcLinkVals weighed a link tagged "Steel" at 7850, a link
\* with another tag at 2700 and a link without width and thickness at 0.
C11_Witness ==
    /\ LinksDerived
    /\ \E i \in 1..Len(truss.links) :
          LET l == truss.links[i]
          IN  /\ Resolved(truss, l) /\ l.material = Some("Steel")
              /\ l.weight = Some(7850 * Val(l.length) * Val(l.width) * Val(l.thickness) * 981)
              /\ Val(l.weight) > 0
    /\ \E i \in 1..Len(truss.links) :
          LET l == truss.links[i]
          IN  /\ Resolved(truss, l) /\ l.material = Some("alu")
              /\ l.weight = Some(2700 * Val(l.length) * Val(l.width) * Val(l.thickness) * 981)
              /\ Val(l.weight) > 0
    /\ \E i \in 1..Len(truss.links) :
          LET l == truss.links[i]
          IN  /\ Resolved(truss, l) /\ l.width = None /\ l.thickness = None
              /\ l.weight = Some(0)

\* The links drawLinks draws: those whose endpoints resolve, in order.
ResolvedLinks(t) == SelectSeq(t.links, LAMBDA l : Resolved(t, l))

\* C12: in the tooltip drawLinks builds for a link that has a weight, the
\* weight shown is half of link.weight when exactly one of the two endpoint
\* names is a support name, and link.weight when none or both are.
C12_TooltipWeightHalved ==
    (IsImported /\ stage = "done") =>
        /\ Len(view.scene.links) = Len(ResolvedLinks(truss))
        /\ \A k \in 1..Len(view.scene.links) :
              LET l   == ResolvedLinks(truss)[k]
                  tip == view.scene.links[k].tip
              IN  TruthyNum(l.weight) =>
                    IF IsSupportName(l.node1_Name) # IsSupportName(l.node2_Name)
                    THEN 2 * tip.weight = Val(l.weight)
                    ELSE tip.weight = Val(l.weight)

\* C13: drawTruss called on a model whose scene was just built, with nothing
\* changed in between, raises nothing and emits the same scene again: the same
\* grid rectangle and grid lines, the same link and node shapes and tooltips.
C13_SceneRebuildDeterministic ==
    [][ (SceneBuilt /\ lastOp' = "drawTruss")
        => (err' = "" /\ view'.scene = view.scene) ]_vars

\* drawNodes drew a left support and a right support.
SupportsDrawn ==
    /\ \E k \in 1..Len(view.scene.nodes) :
          view.scene.nodes[k].kind = "pivot" /\ view.scene.nodes[k].tipReaction # None
    /\ \E k \in 1..Len(view.scene.nodes) :
          view.scene.nodes[k].kind = "roller" /\ view.scene.nodes[k].tipReaction # None

\* C14: a model that drawNodes shows with both supports, whatever the letter
\* case of their names, has its reactions computed by calcSupportReactions:
\* under a total weight above 0 they are not both left at 0.
C14_SupportNamesAnyCase ==
    ( /\ IsImported /\ stage = "done"
      /\ SupportsDrawn
      /\ WeightsSet(truss)
      /\ TotalWeight(truss) > 0 )
    => ~(truss.leftReaction = 0 /\ truss.rightReaction = 0)

\* C15: in the scene drawNodes builds, the tooltip of the left support shows
\* the model's leftReaction, that of the right support its rightReaction, and
\* the tooltip of every other node its name only.
C15_SupportTooltipShowsReaction ==
    (IsImported /\ stage = "done") =>
        /\ Len(view.scene.nodes) = Len(truss.nodes)
        /\ \A k \in 1..Len(view.scene.nodes) :
              LET n    == truss.nodes[k]
                  item == view.scene.nodes[k]
              IN  /\ item.tipName = n.name
                  /\ item.tipReaction =
                        IF Lower(n.name) = "left" THEN Some(truss.leftReaction)
                        ELSE IF Lower(n.name) = "right" THEN Some(truss.rightReaction)
                        ELSE None

\* The place of the first link of greatest length, all lengths being set.
FirstLongest(links) ==
    CHOOSE i \in 1..Len(links) :
        /\ \A j \in 1..Len(links) : Val(links[j].length) <= Val(links[i].length)
        /\ \A j \in 1..(i - 1) : Val(links[j].length) < Val(links[i].length)

\* C16: after displayReport on a model with at least one link the four
\* longest-link fields describe the link of greatest length, the first of
\* them in the link list when several are equally long.
C16_LongestLinkShown ==
    (IsImported /\ stage \in {"drawTruss", "done"} /\ truss.links # <<>>) =>
        LET l == truss.links[FirstLongest(truss.links)]
        IN  /\ view.longName = Some(l.name)
            /\ view.longLength = l.length
            /\ view.longNode1 = Some(l.node1_Name)
            /\ view.longNode2 = Some(l.node2_Name)

\* C17: handleSceneEvent returns consumed = FALSE for every event; its
\* message is set exactly for a mouse move, and then reports x as it is and y
\* negated (each to the nearest hundredth); eventFilter stops no event.
C17_EventsNeverConsumed ==
    /\ handled = FALSE
    /\ (event # None /\ Val(event).obj = "scene") =>
          LET e == Val(event)
              r == Val(e.result)
          IN  /\ r.consumed = FALSE
              /\ (r.info_str # None) <=> (e.kind = "GraphicsSceneMouseMove")
              /\ r.info_str # None =>
                    /\ Abs(10 * Val(r.info_str)[1] - e.x) <= 5
                    /\ Abs(10 * Val(r.info_str)[2] + e.y) <= 5
                    /\ lbl_MousePos = r.info_str

\* C17 witness: a mouse move below the x axis of the scene was reported with
\* its y negated, and a later event of another kind left the label alone.
C17_Witness ==
    /\ event # None
    /\ Val(event).obj = "scene"
    /\ Val(event).kind = "GraphicsSceneWheel"
    /\ Val(event).result = Some([consumed |-> FALSE, info_str |-> None])
    /\ lbl_MousePos = Some(<<2, 124>>)
    /\ handled = FALSE

\* The records of one kind among the lines, in order.
Records(lines, kind) ==
    SelectSeq(lines, LAMBDA l : ~IsIgnored(l) /\ KindOf(l) = kind)

\* The number in field k of the last of the records, None without a record.
LastNumber(records, k) ==
    IF records = <<>> THEN None
    ELSE Some(FloatVal(Strip(records[Len(records)][k])))

\* C18: after an import that ran to its end the model holds exactly the nodes
\* and the links of the lines of that import, in their order, the material
\* values and the static factor of those lines (unset when they give none),
\* and reactions of 0 when those lines declare no pair of supports: nothing
\* of the model before the import is left.
C18_ModelFromLastImportOnly ==
    (IsImported /\ stage = "done") =>
        LET nodes == Records(data, "node")
            links == Records(data, "link")
        IN  /\ Len(truss.nodes) = Len(nodes)
            /\ \A k \in 1..Len(nodes) :
                  truss.nodes[k] = [name |-> Strip(nodes[k][2]),
                                    x |-> FloatVal(Strip(nodes[k][3])),
                                    y |-> FloatVal(Strip(nodes[k][4]))]
            /\ Len(truss.links) = Len(links)
            /\ \A k \in 1..Len(links) :
                  /\ truss.links[k].name = Strip(links[k][2])
                  /\ truss.links[k].node1_Name = Strip(links[k][3])
                  /\ truss.links[k].node2_Name = Strip(links[k][4])
            /\ truss.material.uts = LastNumber(Records(data, "material"), 2)
            /\ truss.material.ys = LastNumber(Records(data, "material"), 3)
            /\ truss.material.E = LastNumber(Records(data, "material"), 4)
            /\ truss.material.staticFactor = LastNumber(Records(data, "static"), 2)
            /\ ~SupportsExist(truss) =>
                  (truss.leftReaction = 0 /\ truss.rightReaction = 0)

\* C18 witness: an import of lines without nodes, links and material values,
\* into a controller whose model had reactions, left an empty model with
\* reactions of 0 and the static factor of its own lines.
C18_Witness ==
    /\ IsImported /\ stage = "done"
    /\ prior[1] # 0
    /\ truss.nodes = <<>> /\ truss.links = <<>>
    /\ truss.material = [Material EXCEPT !.staticFactor = Some(2)]
    /\ truss.leftReaction = 0 /\ truss.rightReaction = 0

\* C19: calcLinkVals leaves a link with an endpoint that resolves to no node
\* exactly as it was, its length, angleRad and weight included; in an import
\* such a link, freshly parsed, keeps all three unset.
C19_UnresolvedLinkSkipped ==
    [][ /\ lastOp' = "calcLinkVals" =>
              /\ Len(truss'.links) = Len(truss.links)
              /\ \A i \in 1..Len(truss.links) :
                    ~Resolved(truss, truss.links[i]) => truss'.links[i] = truss.links[i]
        /\ (lastOp' = "ImportFromFile" /\ stage' # "parse") =>
              \A i \in 1..Len(truss'.links) :
                  ~Resolved(truss', truss'.links[i]) =>
                      /\ truss'.links[i].length = None
                      /\ truss'.links[i].angleRad = None
                      /\ truss'.links[i].weight = None ]_vars

\* C19 witness: calcLinkVals ran over a link that had been derived and then
\* pointed at a node that does not exist; it still has its earlier values.
C19_Witness ==
    /\ lastOp = "calcLinkVals"
    /\ \E i \in 1..Len(truss.links) :
          /\ ~Resolved(truss, truss.links[i])
          /\ truss.links[i].length # None
          /\ TruthyNum(truss.links[i].weight)

\* C20: on a model without a node named "left" or without a node named
\* "right", calcSupportReactions changes nothing and raises nothing, whatever
\* the links; in an import of such a model the reactions stay those of the
\* new model and the step raises nothing.
C20_MissingSupportChangesNothing ==
    [][ /\ (lastOp' = "calcSupportReactions" /\ ~SupportsExist(truss)) =>
              (truss' = truss /\ err' = "")
        /\ (lastOp' = "ImportFromFile" /\ stage' # "parse" /\ ~SupportsExist(truss')) =>
              /\ stage' # "calcSupportReactions"
              /\ truss'.leftReaction = 0 /\ truss'.rightReaction = 0 ]_vars

\* C20 witness: calcSupportReactions was called on a model with weighing
\* links and no node named "left", and returned without an exception.
C20_Witness ==
    /\ lastOp = "calcSupportReactions"
    /\ getNode(truss, "left") = None
    /\ truss.nodes # <<>>
    /\ WeightsSet(truss) /\ TotalWeight(truss) > 0
    /\ err = ""
    /\ <<truss.leftReaction, truss.rightReaction>> = prior

\* The least and the greatest of a set of numbers that is not empty.
Least(S) == CHOOSE m \in S : \A n \in S : m <= n
Greatest(S) == CHOOSE m \in S : \A n \in S : m >= n

\* The tight bounding box of the node positions.
Box(nodes) ==
    LET xs == {nodes[i].x : i \in 1..Len(nodes)}
        ys == {nodes[i].y : i \in 1..Len(nodes)}
    IN  [minX |-> Least(xs), maxX |-> Greatest(xs),
         minY |-> Least(ys), maxY |-> Greatest(ys)]

\* Twice the scene coordinates of the model point (x, y): x - centerX and
\* -(y - centerY), with the centre of the box of the nodes.
PlaceX2(nodes, x) == 2 * x - (Box(nodes).minX + Box(nodes).maxX)
PlaceY2(nodes, y) == -(2 * y - (Box(nodes).minY + Box(nodes).maxY))

\* The first node of that name.
FirstNamed(nodes, name) ==
    nodes[Least({i \in 1..Len(nodes) : nodes[i].name = name})]

\* The link's shape runs between the places of the first nodes that carry
\* its two endpoint names.
LinkPlaced(nodes, l, item) ==
    /\ item.name = l.name
    /\ item.x1 = PlaceX2(nodes, FirstNamed(nodes, l.node1_Name).x)
    /\ item.y1 = PlaceY2(nodes, FirstNamed(nodes, l.node1_Name).y)
    /\ item.x2 = PlaceX2(nodes, FirstNamed(nodes, l.node2_Name).x)
    /\ item.y2 = PlaceY2(nodes, FirstNamed(nodes, l.node2_Name).y)

\* C21: buildScene on a model with nodes places every node and every endpoint
\* of a resolved link at (x - centerX, -(y - centerY)), the centre being that
\* of the tight bounding box of the node positions, and draws a grid of the
\* box's width + 100 by its height + 100.
C21_PlacementIgnoresPadding ==
    (SceneBuilt /\ truss.nodes # <<>>) =>
        LET nodes == truss.nodes
            drawn == ResolvedLinks(truss)
            scene == view.scene
        IN  /\ Len(scene.nodes) = Len(nodes)
            /\ \A k \in 1..Len(nodes) :
                  /\ scene.nodes[k].x = PlaceX2(nodes, nodes[k].x)
                  /\ scene.nodes[k].y = PlaceY2(nodes, nodes[k].y)
            /\ Len(scene.links) = Len(drawn)
            /\ \A k \in 1..Len(drawn) : LinkPlaced(nodes, drawn[k], scene.links[k])
            /\ scene.grid # None
            /\ Val(scene.grid).width = Box(nodes).maxX - Box(nodes).minX + 100
            /\ Val(scene.grid).height = Box(nodes).maxY - Box(nodes).minY + 100

\* C21 witness: drawTruss drew a model whose box is 6 wide and 4 high, with a
\* node at its lower left corner placed at (-3, 2) and a link from there.
C21_Witness ==
    /\ lastOp = "drawTruss" /\ err = ""
    /\ truss.nodes # <<>>
    /\ Box(truss.nodes) = [minX |-> 0, maxX |-> 6, minY |-> 0, maxY |-> 4]
    /\ view.scene.grid # None
    /\ Val(view.scene.grid).width = 106 /\ Val(view.scene.grid).height = 104
    /\ \E k \in 1..Len(view.scene.nodes) :
          view.scene.nodes[k].x = -6 /\ view.scene.nodes[k].y = 4
    /\ \E k \in 1..Len(view.scene.links) :
          view.scene.links[k].x1 = -6 /\ view.scene.links[k].y1 = 4

\* Some name is carried by more than one node.
HasTwins(nodes) ==
    \E i, j \in 1..Len(nodes) : i < j /\ nodes[i].name = nodes[j].name

\* Both endpoint names of the link are carried by some node.
Named(nodes, l) ==
    /\ \E i \in 1..Len(nodes) : nodes[i].name = l.node1_Name
    /\ \E i \in 1..Len(nodes) : nodes[i].name = l.node2_Name

\* C22: the node records of an import are all kept, in input order, also when
\* a name repeats; and every lookup by name takes the first node of that
\* name: the length and angle of a link, the span between the supports, and
\* the endpoints of the link's shape in the scene.
C22_FirstNodeOfAName ==
    LET nodes == truss.nodes
    IN  /\ (IsImported /\ stage # "parse") =>
              /\ Len(nodes) = Len(Records(data, "node"))
              /\ \A k \in 1..Len(nodes) :
                    nodes[k] = [name |-> Strip(Records(data, "node")[k][2]),
                                x |-> FloatVal(Strip(Records(data, "node")[k][3])),
                                y |-> FloatVal(Strip(Records(data, "node")[k][4]))]
        /\ LinksDerived =>
              \A i \in 1..Len(truss.links) :
                  LET l  == truss.links[i]
                      n1 == FirstNamed(nodes, l.node1_Name)
                      n2 == FirstNamed(nodes, l.node2_Name)
                  IN  Named(nodes, l) =>
                        /\ l.length = Some(Hypot(n2.x - n1.x, n2.y - n1.y))
                        /\ l.angleRad = Some(Atan2(n2.y - n1.y, n2.x - n1.x))
        /\ ( /\ ReactionsRan /\ err = ""
             /\ \E i \in 1..Len(nodes) : nodes[i].name = "left"
             /\ \E i \in 1..Len(nodes) : nodes[i].name = "right"
             /\ WeightsSet(truss) /\ TotalWeight(truss) > 0 ) =>
              ( FirstNamed(nodes, "right").x = FirstNamed(nodes, "left").x
                <=> ( /\ truss.leftReaction = TotalWeight(truss)
                      /\ truss.rightReaction = 0 ) )
        /\ (IsImported /\ stage = "done") =>
              LET drawn == SelectSeq(truss.links, LAMBDA l : Named(nodes, l))
              IN  /\ Len(view.scene.links) = Len(drawn)
                  /\ \A k \in 1..Len(drawn) :
                        LinkPlaced(nodes, drawn[k], view.scene.links[k])

\* C22 witness: an import kept four nodes of two names, measured the link
\* between the first "left" and the first "right" (length 6, not 4 or 3) and
\* took the span between them (not 0) for the reactions.
C22_Witness ==
    /\ IsImported /\ stage = "done"
    /\ Len(truss.nodes) = 4
    /\ HasTwins(truss.nodes)
    /\ \E i \in 1..Len(truss.links) :
          /\ truss.links[i].node1_Name = "left"
          /\ truss.links[i].node2_Name = "right"
          /\ truss.links[i].length = Some(6)
    /\ truss.rightReaction # 0
    /\ Len(view.scene.links) = 1

====
